---------------------------- MODULE Spec2Model ----------------------------
(***************************************************************************)
(* Model of the merkle package of liqingnz/merkle-generator                *)
(* (src/tools/README.md lines 418-576 hold the package source).            *)
(*                                                                         *)
(* Byte strings are sequences of integer tokens.  A digest (common.Hash)   *)
(* is a token string that names its 32 bytes uniquely:                     *)
(*   - a raw digest handed in by a caller is one token n >= 1;             *)
(*   - an output of Keccak-256 is its preimage between the tokens Open and *)
(*     Close.  Keccak256Hash is therefore injective (collision-free), and  *)
(*     the concatenation of two digests splits in exactly one way, as the  *)
(*     concatenation of two 32-byte values does.                           *)
(* bytes.Compare on digests is a total order in which Keccak outputs fall  *)
(* between, below and above the raw digests.                               *)
(***************************************************************************)
EXTENDS Integers, Sequences, FiniteSets, TLC

(* ------------------------------ bounds --------------------------------- *)

\* longest leaf slice a caller passes to NewMerkleTree
MaxLeaves == 4

\* number of distinct raw digests a caller can use as leaves
NumRaw == 2

(* ------------------------- bytes and hashing --------------------------- *)

Open == -1

Close == -2

\* byte values a raw digest can stand for
RawDigests == { <<n>> : n \in 1..NumRaw }

IsRaw(d) == Len(d) = 1 /\ d[1] >= 1

\* crypto.Keccak256Hash(data): a fresh digest for every distinct preimage
Keccak256Hash(data) == <<Open>> \o data \o <<Close>>

\* HashData(data)
HashData(data) == Keccak256Hash(data)

\* the sum of 3^(k-1) * (s[k] + 3) modulo 7 over the positions lo..hi of s,
\* taken by halves
RECURSIVE ChecksumRange(_, _, _)
ChecksumRange(s, lo, hi) ==
  IF lo > hi THEN 0
  ELSE IF lo = hi
  THEN (<<1, 3, 2, 6, 4, 5>>[((lo - 1) % 6) + 1] * (s[lo] + 3)) % 7
  ELSE LET mid == (lo + hi) \div 2
       IN  (ChecksumRange(s, lo, mid) + ChecksumRange(s, mid + 1, hi)) % 7

\* a checksum of the tokens of s
Checksum(s) == ChecksumRange(s, 1, Len(s))

\* the leading byte of a digest: raw digests keep their value (even slots),
\* Keccak outputs land pseudo-randomly in the odd slots between them
LeadByte(d) ==
  IF IsRaw(d) THEN 2 * d[1] ELSE 2 * (Checksum(d) % (NumRaw + 1)) + 1

\* s comes before t in the order of bytes.Compare: s is smaller at the first
\* position where they differ, or s is a proper prefix of t
LexLess(s, t) ==
  \/ \E k \in 1..Len(s) :
       /\ k <= Len(t)
       /\ s[k] < t[k]
       /\ \A j \in 1..(k - 1) : s[j] = t[j]
  \/ /\ Len(s) < Len(t)
     /\ \A j \in 1..Len(s) : s[j] = t[j]

\* bytes.Compare(a[:], b[:]): -1, 0 or 1
Compare(a, b) ==
  LET la == LeadByte(a)
      lb == LeadByte(b)
  IN  IF a = b THEN 0
      ELSE IF la # lb
           THEN (IF la < lb THEN -1 ELSE 1)
      ELSE IF Len(a) # Len(b)
           THEN (IF Len(a) < Len(b) THEN -1 ELSE 1)
      ELSE IF LexLess(a, b) THEN -1 ELSE 1

\* hashPair with the operands of the second branch mistyped: append(a, a...)
hashPairTypo(a, b) ==
  IF Compare(a, b) < 0
  THEN Keccak256Hash(a \o b)
  ELSE Keccak256Hash(a \o a)

\* hashPair without the ordering of its operands
hashPairUnordered(a, b) == Keccak256Hash(a \o b)

\* hashPair(a, b)
hashPair(a, b) ==
  IF Compare(a, b) < 0
  THEN Keccak256Hash(a \o b)
  ELSE Keccak256Hash(b \o a)

(* ------------------------------ the tree -------------------------------- *)

VARIABLES
  cmd,                \* which entry point this run exercises
  pc,                 \* position of the caller / of the running call
  leaves,             \* the caller's slice handed to NewMerkleTree
  mt,                 \* *MerkleTree: [nil, leaves]
  err,                \* error value of the last call ("" = nil)
  currentLevel,       \* local of GenerateRoot / GenerateProof
  currentTargetIndex, \* local of GenerateProof (0-based)
  target,             \* argument of the running / last GenerateProof
  proof,              \* local, then result, of GenerateProof
  root,               \* result of the last GenerateRoot (<<>> = none yet)
  verifyArgs,         \* <<proof, root, target>> of the last VerifyProof
  isValid,            \* result of the last VerifyProof
  a, b,               \* arguments of the hashPair exercise
  hash1, hash2        \* hashPair(a, b), hashPair(b, a)

VARIABLES
  address,            \* HashAddressAmount argument: the account bytes
  amount,             \* HashAddressAmount argument: the *big.Int value
  data,               \* HashAddressAmount local: the preimage
  hash,               \* result of HashAddressAmount / HexToHash
  hex,                \* HexToHash argument: the text
  threads             \* concurrent callers: each one's call, locals and result

VARIABLES
  dryRun,             \* claim tool: the -dry-run flag
  targetAddr,         \* claim tool: the -address flag (<<>> when not given)
  claimers,           \* claim tool: the rows of the CSV file
  targetClaimers,     \* claim tool: the rows to claim for
  claimIndex,         \* claim tool: position of the loop over targetClaimers
  calls,              \* claim tool: contract and client calls made so far
  reports             \* claim tool: rows that got the dry-run report

claimVars ==
  <<dryRun, targetAddr, claimers, targetClaimers, claimIndex, calls, reports>>

VARIABLES
  records,            \* CSV readers: the records csv.Reader.ReadAll returns
  addresses,          \* csv_merkle_generator: the accounts readCSV returns
  amounts,            \* csv_merkle_generator: the amounts readCSV returns
  files               \* csv_merkle_generator: the output files written

csvVars == <<records, addresses, amounts, files>>

\* the variables the tree and hashPair runs never touch
extVars == <<address, amount, data, hash, hex, threads, claimVars, csvVars>>

vars == <<cmd, pc, leaves, mt, err, currentLevel, currentTargetIndex, target,
          proof, root, verifyArgs, isValid, a, b, hash1, hash2, extVars>>

\* digests a caller uses as leaves and targets: raw ones and one HashData output
LeafDigests == RawDigests \cup { HashData(<<1, 2>>) }

\* all slices of at most n digests
SeqsUpTo(S, n) == UNION { [1..k -> S] : k \in 0..n }

\* a *MerkleTree: nil or not, the contents of its leaves slice, and the array
\* that backs the slice ("leafCopy": the one NewMerkleTree allocates;
\* "leaves": the one behind the caller's slice)
NilTree == [nil |-> TRUE, leaves |-> <<>>, array |-> "none"]

\* NewMerkleTree without the check for an empty slice
NewMerkleTreeNoCheck(ls) ==
  <<[nil |-> FALSE, leaves |-> [i \in 1..Len(ls) |-> ls[i]],
     array |-> "leafCopy"], "">>

\* NewMerkleTree that keeps the caller's slice instead of a copy
NewMerkleTreeNoCopy(ls) ==
  IF Len(ls) = 0
  THEN <<NilTree, "array cannot be empty">>
  ELSE <<[nil |-> FALSE, leaves |-> ls, array |-> "leaves"], "">>

\* NewMerkleTree(leaves): <<tree, err>>
NewMerkleTree(ls) ==
  IF Len(ls) = 0
  THEN <<NilTree, "array cannot be empty">>
  ELSE LET leafCopy == [i \in 1..Len(ls) |-> ls[i]]
       IN  <<[nil |-> FALSE, leaves |-> leafCopy, array |-> "leafCopy"], "">>

\* NextLevel pairing the odd node out with a copy of itself
NextLevelDuplicate(level) ==
  [j \in 1..((Len(level) + 1) \div 2) |->
     IF 2 * j <= Len(level)
     THEN hashPair(level[2 * j - 1], level[2 * j])
     ELSE hashPair(level[2 * j - 1], level[2 * j - 1])]

\* NextLevel hashing the odd node out on its own
NextLevelHashOdd(level) ==
  [j \in 1..((Len(level) + 1) \div 2) |->
     IF 2 * j <= Len(level)
     THEN hashPair(level[2 * j - 1], level[2 * j])
     ELSE Keccak256Hash(level[2 * j - 1])]

\* one pass of the inner for loop of GenerateRoot / GenerateProof:
\* nextLevel[i/2] for i = 0, 2, 4, ... (j = i/2 + 1 here)
NextLevel(level) ==
  [j \in 1..((Len(level) + 1) \div 2) |->
     IF 2 * j <= Len(level)
     THEN hashPair(level[2 * j - 1], level[2 * j])
     ELSE level[2 * j - 1]]

\* FindTargetIndex without the break: the last match wins
FindTargetIndexLast(ls, t) ==
  LET hits == { i \in 1..Len(ls) : ls[i] = t }
  IN  IF hits = {} THEN -1
      ELSE (CHOOSE i \in hits : \A k \in hits : i >= k) - 1

\* FindTargetIndex with targetIndex initialised to 0 instead of -1
FindTargetIndexFromZero(ls, t) ==
  LET hits == { i \in 1..Len(ls) : ls[i] = t }
  IN  IF hits = {} THEN 0
      ELSE (CHOOSE i \in hits : \A k \in hits : i <= k) - 1

\* the search loop of GenerateProof: 0-based index of the first match, or -1
FindTargetIndex(ls, t) ==
  LET hits == { i \in 1..Len(ls) : ls[i] = t }
  IN  IF hits = {} THEN -1
      ELSE (CHOOSE i \in hits : \A k \in hits : i <= k) - 1

\* ProofAppend that gives the promoted node itself as its sibling
ProofAppendAlways(level, idx) ==
  LET i == (idx \div 2) * 2
  IN  IF i + 1 < Len(level)
      THEN (IF idx % 2 = 0 THEN <<level[i + 2]>> ELSE <<level[i + 1]>>)
      ELSE <<level[i + 1]>>

\* what one pass of the inner loop of GenerateProof appends to proof
\* (idx is 0-based, level is 1-based)
ProofAppend(level, idx) ==
  LET i == (idx \div 2) * 2
  IN  IF i + 1 < Len(level)
      THEN (IF idx % 2 = 0 THEN <<level[i + 2]>> ELSE <<level[i + 1]>>)
      ELSE <<>>

\* NextTargetIndex updated only in the branch that finds a pairing partner
NextTargetIndexPairOnly(level, idx) ==
  LET hits == { i \in 0..(Len(level) - 1) :
                  i % 2 = 0 /\ i = (idx \div 2) * 2 /\ i + 1 < Len(level) }
  IN  IF hits = {} THEN 0 ELSE (CHOOSE i \in hits : TRUE) \div 2

\* nextTargetIndex after one pass of the inner loop of GenerateProof
NextTargetIndex(level, idx) ==
  LET hits == { i \in 0..(Len(level) - 1) :
                  i % 2 = 0 /\ i = (idx \div 2) * 2 }
  IN  IF hits = {} THEN 0 ELSE (CHOOSE i \in hits : TRUE) \div 2

RECURSIVE FoldProof(_, _)
\* the loop of VerifyProof: computedHash after consuming p
FoldProof(computedHash, p) ==
  IF p = <<>> THEN computedHash
  ELSE FoldProof(hashPair(computedHash, Head(p)), Tail(p))

\* VerifyProof whose loop starts at the second proof element
VerifyProofSkipFirst(p, r, t) ==
  FoldProof(t, IF p = <<>> THEN p ELSE Tail(p)) = r

\* VerifyProof rejecting every empty proof
VerifyProofNoEmpty(p, r, t) == p # <<>> /\ FoldProof(t, p) = r

\* VerifyProof(proof, root, target)
VerifyProof(p, r, t) == FoldProof(t, p) = r

RECURSIVE RootLoop(_)
\* the loop of GenerateRoot run to its end: currentLevel[0] at the return
RootLoop(level) ==
  IF Len(level) > 1 THEN RootLoop(NextLevel(level)) ELSE level[1]

\* mt.GenerateRoot() as one function of mt.leaves
GenerateRoot(ls) == IF Len(ls) = 1 THEN ls[1] ELSE RootLoop(ls)

RECURSIVE ProofLoop(_, _, _)
\* the loop of GenerateProof run to its end: proof at the return
ProofLoop(level, idx, p) ==
  IF Len(level) > 1
  THEN ProofLoop(NextLevel(level), NextTargetIndex(level, idx),
                 p \o ProofAppend(level, idx))
  ELSE p

\* mt.GenerateProof(t) as one function of mt.leaves: <<proof, err>>
GenerateProof(ls, t) ==
  IF FindTargetIndex(ls, t) = -1
  THEN <<<<>>, "target leaf not found">>
  ELSE <<ProofLoop(ls, FindTargetIndex(ls, t), <<>>), "">>

(* --------------------------- HashAddressAmount -------------------------- *)

\* len(common.Address{}.Bytes()): "address (20 bytes)"
AddressLength == 20

\* make([]byte, 32)
AmountBytes == 32

\* "address (20 bytes) + amount (32 bytes) = 52 bytes total"
PreimageLength == 52

\* the largest byte
MaxByte == 255

\* a *big.Int is a sign and a magnitude kept as base-256 digits, least
\* significant first, without a leading zero digit (zero is the empty magnitude)
BigInt(neg, abs) == [neg |-> neg, abs |-> abs]

\* the k-th base-256 digit of |x| (k = 0 is the least significant)
Digit(x, k) == IF k < Len(x.abs) THEN x.abs[k + 1] ELSE 0

\* |x| <= 2^(8*n) - 1
FitsIn(x, n) == Len(x.abs) <= n

\* nat.bytes: the digits are written from the end of buf towards its start
RECURSIVE PutBytes(_, _, _)
PutBytes(buf, abs, i) ==
  IF abs = <<>> THEN buf
  ELSE PutBytes([buf EXCEPT ![i] = Head(abs)], Tail(abs), i - 1)

\* a FillBytes that writes the digits from the start of buf
FillBytesLittleEndian(x, n) ==
  [i \in 1..n |-> IF i <= Len(x.abs) THEN x.abs[i] ELSE 0]

\* x.FillBytes(buf) with len(buf) = n, for a value that fits: buf is cleared,
\* then |x| is written big-endian (the sign is not looked at)
FillBytes(x, n) == PutBytes([i \in 1..n |-> 0], x.abs, n)

\* HashAddressAmount(address, amount) when it returns
HashAddressAmount(addr, amt) ==
  Keccak256Hash(addr \o FillBytes(amt, AmountBytes))

\* util.FindTestCaseIndex: the first row with the address, or -1
FindTestCaseIndex(testCases, addr) ==
  IF \E k \in 1..Len(testCases) : testCases[k].address = addr
  THEN CHOOSE k \in 1..Len(testCases) :
         /\ testCases[k].address = addr
         /\ \A j \in 1..(k - 1) : testCases[j].address # addr
  ELSE -1

(* -------------------------------- HexToHash ----------------------------- *)

\* len(hex) != 66: "0x + 64 chars"
HashTextLength == 66

\* len(common.Hash{})
HashLength == 32

\* a text is the sequence of its characters
LowerDigits ==
  <<"0", "1", "2", "3", "4", "5", "6", "7", "8", "9", "a", "b", "c", "d", "e", "f">>

UpperDigits == <<"A", "B", "C", "D", "E", "F">>

\* the characters hex.DecodeString accepts
HexChars ==
  { LowerDigits[k] : k \in 1..16 } \cup { UpperDigits[k] : k \in 1..6 }

\* the value of a hexadecimal digit
Nibble(c) ==
  IF \E k \in 1..16 : LowerDigits[k] = c
  THEN (CHOOSE k \in 1..16 : LowerDigits[k] = c) - 1
  ELSE (CHOOSE k \in 1..6 : UpperDigits[k] = c) + 9

\* common.has0xPrefix
has0xPrefix(str) ==
  Len(str) >= 2 /\ str[1] = "0" /\ (str[2] = "x" \/ str[2] = "X")

\* common.isHex: an even number of hexadecimal digits
isHex(str) ==
  Len(str) % 2 = 0 /\ \A i \in 1..Len(str) : str[i] \in HexChars

\* common.IsHexAddress
IsHexAddress(str) ==
  LET t == IF has0xPrefix(str) THEN SubSeq(str, 3, Len(str)) ELSE str
  IN  Len(t) = 2 * AddressLength /\ isHex(t)

\* hex.DecodeString with its error dropped (common.Hex2Bytes): the bytes
\* decoded before the first character that is no hexadecimal digit
RECURSIVE Hex2Bytes(_)
Hex2Bytes(str) ==
  IF Len(str) < 2 \/ str[1] \notin HexChars \/ str[2] \notin HexChars
  THEN <<>>
  ELSE <<16 * Nibble(str[1]) + Nibble(str[2])>>
         \o Hex2Bytes(SubSeq(str, 3, Len(str)))

\* common.FromHex: the prefix is dropped, an odd text gets a leading "0"
FromHex(str) ==
  LET t == IF has0xPrefix(str) THEN SubSeq(str, 3, Len(str)) ELSE str
  IN  Hex2Bytes(IF Len(t) % 2 = 1 THEN <<"0">> \o t ELSE t)

\* common.BytesToHash: cropped from the left, padded on the left
BytesToHash(bs) ==
  LET c == IF Len(bs) > HashLength
           THEN SubSeq(bs, Len(bs) - HashLength + 1, Len(bs)) ELSE bs
      pad == HashLength - Len(c)
  IN  [i \in 1..HashLength |-> IF i <= pad THEN 0 ELSE c[i - pad]]

\* common.Hash{}
ZeroHash == [i \in 1..HashLength |-> 0]

\* HexToHash(hex): <<hash, error>>
HexToHash(str) ==
  IF ~IsHexAddress(str) /\ Len(str) # HashTextLength
  THEN <<ZeroHash, "invalid hex string">>
  ELSE <<BytesToHash(FromHex(str)), "">>

(* ------------------------------ CSV readers ----------------------------- *)

\* common.BytesToAddress: cropped from the left, padded on the left
BytesToAddress(bs) ==
  LET c == IF Len(bs) > AddressLength
           THEN SubSeq(bs, Len(bs) - AddressLength + 1, Len(bs)) ELSE bs
      pad == AddressLength - Len(c)
  IN  [i \in 1..AddressLength |-> IF i <= pad THEN 0 ELSE c[i - pad]]

\* common.Address{}
ZeroAddress == [i \in 1..AddressLength |-> 0]

\* common.HexToAddress: no text is refused
HexToAddress(str) == BytesToAddress(FromHex(str))

DecimalDigits == <<"0", "1", "2", "3", "4", "5", "6", "7", "8", "9">>

\* the value of a decimal digit
DecimalValue(c) == (CHOOSE k \in 1..10 : DecimalDigits[k] = c) - 1

RECURSIVE MulAddWW(_, _, _)
\* abs * y + r on base-256 digits, least significant first
MulAddWW(abs, y, r) ==
  IF abs = <<>> THEN (IF r = 0 THEN <<>> ELSE <<r>>)
  ELSE LET v == Head(abs) * y + r
       IN  LET rest == MulAddWW(Tail(abs), y, v \div (MaxByte + 1))
           IN  IF rest = <<>> /\ v % (MaxByte + 1) = 0 THEN <<>>
               ELSE <<v % (MaxByte + 1)>> \o rest

RECURSIVE ScanDecimal(_, _)
\* nat.scan in base 10: the digits of str, most significant first, onto abs
ScanDecimal(abs, str) ==
  IF str = <<>> THEN abs
  ELSE ScanDecimal(MulAddWW(abs, 10, DecimalValue(Head(str))), Tail(str))

\* new(big.Int).SetString(str, 10): <<value, ok>>; an optional sign, then
\* one or more decimal digits, and nothing else
SetString(str) ==
  LET signed == Len(str) > 0 /\ (str[1] = "-" \/ str[1] = "+")
      digits == IF signed THEN Tail(str) ELSE str
  IN  IF digits = <<>>
         \/ \E i \in 1..Len(digits) :
              \A k \in 1..10 : DecimalDigits[k] # digits[i]
      THEN <<BigInt(FALSE, <<>>), FALSE>>
      ELSE LET abs == ScanDecimal(<<>>, digits)
           IN  <<BigInt(abs # <<>> /\ str[1] = "-", abs), TRUE>>

\* csv.Reader.ReadAll with FieldsPerRecord = 0: every record has as many
\* fields as the first one; <<records, err>>
ReadAll(file) ==
  IF \E i \in 1..Len(file) : Len(file[i]) # Len(file[1])
  THEN <<<<>>, "wrong number of fields">>
  ELSE <<file, "">>

\* the row readCSV appends: enough columns, an account other than the zero
\* one, an amount that parses
readCSVKeeps(record) ==
  /\ Len(record) >= 2
  /\ HexToAddress(record[1]) # ZeroAddress
  /\ SetString(record[2])[2]

\* readCSV(filename): <<addresses, amounts, err>>
readCSV(file) ==
  LET all == ReadAll(file)
      rows == SelectSeq(Tail(all[1]), readCSVKeeps)
  IN  IF all[2] # "" THEN <<<<>>, <<>>, all[2]>>
      ELSE IF Len(all[1]) < 2
      THEN <<<<>>, <<>>,
             "CSV file must have at least a header and one data row">>
      ELSE IF rows = <<>>
      THEN <<<<>>, <<>>, "no valid entries found in CSV file">>
      ELSE <<[i \in 1..Len(rows) |-> HexToAddress(rows[i][1])],
             [i \in 1..Len(rows) |-> SetString(rows[i][2])[1]], "">>

\* the ClaimerInfo of record i
ClaimerOf(record, i) ==
  [name |-> i, address |-> HexToAddress(record[1]), privateKey |-> record[2],
   amount |-> SetString(record[3])[1]]

\* the record ReadClaimersFromCSV stops at
BadClaimerRecord(record) == Len(record) # 3 \/ ~SetString(record[3])[2]

\* ReadClaimersFromCSV(filePath): <<claimers, err>>
ReadClaimersFromCSV(file) ==
  LET all == ReadAll(file)
      rows == all[1]
  IN  IF all[2] # "" THEN <<<<>>, "failed to read CSV file">>
      ELSE IF Len(rows) = 0 THEN <<<<>>, "CSV file is empty">>
      ELSE IF \E i \in 1..Len(rows) : BadClaimerRecord(rows[i])
      THEN LET i == CHOOSE k \in 1..Len(rows) :
                      /\ BadClaimerRecord(rows[k])
                      /\ \A j \in 1..(k - 1) : ~BadClaimerRecord(rows[j])
           IN  IF Len(rows[i]) # 3 THEN <<<<>>, "invalid CSV format">>
               ELSE <<<<>>, "invalid amount">>
      ELSE <<[i \in 1..Len(rows) |-> ClaimerOf(rows[i], i)], "">>

\* the number of leaves above which saveResults writes no .leaves file
LeavesFileLimit == 1000

\* the files saveResults writes, as rows of values before their formatting:
\* <csv>.root, <csv>.leaves and <csv>.proof
saveResults(addrs, amts, ls, r) ==
  [root   |-> <<r>>,
   leaves |-> IF Len(ls) > LeavesFileLimit THEN <<>>
              ELSE [i \in 1..Len(addrs) |->
                      [address |-> addrs[i], amount |-> amts[i],
                       leaf |-> ls[i]]],
   proof  |-> IF Len(ls) > 0
              THEN <<[address |-> addrs[1], amount |-> amts[1],
                      leaf |-> ls[1],
                      proof |-> GenerateProof(ls, ls[1])[1]]>>
              ELSE <<>>]

(* ------------------------- inputs of the callers ------------------------ *)

\* digests handed to the hashPair exercise: leaves and first-level nodes
PairDigests ==
  LeafDigests \cup { hashPair(x, y) : x \in RawDigests, y \in RawDigests }

\* proofs obtained from p by dropping leading elements (p itself, ..., empty)
Suffixes(p) == { SubSeq(p, k, Len(p)) : k \in 1..(Len(p) + 1) }

\* proofs obtained from p by replacing one element by a different digest
Tampered(p) ==
  { [p EXCEPT ![k] = d] : k \in 1..Len(p), d \in LeafDigests \cup {root} }
    \ { p }

\* the nodes on the path from t to the root that proof p describes
PathNodes(t, p) == { FoldProof(t, SubSeq(p, 1, k)) : k \in 0..Len(p) }

\* a digest that is the root of no tree of the model
WrongRoot == HashData(<<>>)

\* the <<proof, root, target>> triples a caller passes to VerifyProof
VerifyCalls ==
  LET have == target # <<>> /\ err = ""
      ts   == LeafDigests \cup {root}
                \cup (IF have THEN PathNodes(target, proof) ELSE {})
  IN  { <<p, root, t>> : p \in Suffixes(proof), t \in ts }
        \cup (IF have
              THEN { <<p, root, target>> : p \in Tampered(proof) }
                     \cup { <<proof, WrongRoot, target>> }
              ELSE {})

\* the longest magnitude handed to HashAddressAmount, in bytes
MaxAmountBytes == 33

\* accounts handed to HashAddressAmount: the zero address, 0xff..ff and one
\* whose bytes all differ
Addresses ==
  { [i \in 1..AddressLength |-> 0], [i \in 1..AddressLength |-> MaxByte],
    [i \in 1..AddressLength |-> i] }

\* magnitudes of every length up to MaxAmountBytes: a top digit 1 or 255 over
\* low digits that are all 0 or all 255
Magnitudes ==
  { <<>> } \cup
  { [i \in 1..n |-> IF i = n THEN hi ELSE lo] :
      n \in 1..MaxAmountBytes, hi \in {1, MaxByte}, lo \in {0, MaxByte} }

\* amounts handed to HashAddressAmount: 0, 1, 2^256 - 1, 2^256, ..., and
\* their negatives
Amounts ==
  { BigInt(FALSE, m) : m \in Magnitudes } \cup
  { BigInt(TRUE, m) : m \in Magnitudes \ { <<>> } }

\* the longest text handed to HexToHash, without its prefix
MaxHexLen == 67

\* validHex of TestHexToHash
ValidHex ==
  <<"0", "x">> \o [i \in 1..64 |->
     <<"1", "2", "3", "4", "5", "6", "7", "8", "9", "0", "a", "b", "c", "d", "e", "f">>
       [((i - 1) % 16) + 1]]

\* invalidHex of TestHexToHash
InvalidHex == <<"i", "n", "v", "a", "l", "i", "d">>

\* texts handed to HexToHash: with and without prefix, of every length up to
\* MaxHexLen, one character repeated (a digit or not), or digits with one
\* other character at the end; and the two texts of the test
HexInputs ==
  LET pres == { <<>>, <<"0", "x">>, <<"0", "X">> }
  IN  { pre \o [i \in 1..n |-> c] :
          pre \in pres, n \in 0..MaxHexLen, c \in {"0", "a", "F", "g", " "} }
      \cup { pre \o [i \in 1..n |-> IF i = n THEN "g" ELSE "a"] :
               pre \in pres, n \in 1..MaxHexLen }
      \cup { ValidHex, InvalidHex }

\* the callers that share one tree
Threads == {"t1", "t2"}

\* the longest leaf sequence of a shared tree
MaxSharedLeaves == 3

\* a caller that is in no call
IdleThread ==
  [op |-> "none", pc |-> "idle", currentLevel |-> <<>>, currentTargetIndex |-> -1,
   target |-> <<>>, proof |-> <<>>, args |-> <<>>, result |-> <<>>]

\* the <<proof, root, target>> triples a caller of the shared tree verifies:
\* the proof of each digest, whole and empty, against the tree's root
SharedVerifyCalls ==
  UNION { { <<p, GenerateRoot(mt.leaves), t>> :
              p \in { GenerateProof(mt.leaves, t)[1], <<>> } } :
          t \in RawDigests }

\* the most rows of a CSV file
MaxRows == 2

\* the accounts of the CSV rows
ClaimAddresses ==
  { [k \in 1..AddressLength |-> 0], [k \in 1..AddressLength |-> k] }

\* the rows of a CSV file: two accounts with amounts 1 and 2, and a row whose
\* amount is 2^256
CsvRows ==
  { [address |-> ad, amount |-> BigInt(FALSE, <<n>>)] :
      ad \in ClaimAddresses, n \in {1, 2} }
  \cup { [address |-> [k \in 1..AddressLength |-> 0],
          amount |-> BigInt(FALSE, [k \in 1..(AmountBytes + 1) |->
                                      IF k = AmountBytes + 1 THEN 1 ELSE 0])] }

\* the -address flag: absent, an account of the rows, or another account
TargetAddrs ==
  { <<>> } \cup ClaimAddresses \cup { [k \in 1..AddressLength |-> MaxByte] }

\* the claim tool has not run
NoClaim ==
  /\ dryRun = FALSE
  /\ targetAddr = <<>>
  /\ claimers = <<>>
  /\ targetClaimers = <<>>
  /\ claimIndex = 0
  /\ calls = {}
  /\ reports = {}

\* the most records a CSV file holds
MaxCsvLines == 3

\* "0x" and forty times the digit c
AddressText(c) == <<"0", "x">> \o [i \in 1..(2 * AddressLength) |-> c]

\* 1000000000000000000, the amount of the README rows
OneEther == <<"1">> \o [i \in 1..18 |-> "0"]

\* the records of a file for csv_merkle_generator: a header, rows of an
\* account and an amount (the account with or without its prefix), a row with
\* the zero account, a row whose amount is no integer, a row of one column
TwoColumnRecords ==
  { <<<<"a", "d", "d", "r", "e", "s", "s">>, <<"a", "m", "o", "u", "n", "t">>>>,
    <<AddressText("1"), OneEther>>,
    <<Tail(Tail(AddressText("2"))), <<"2">>>>,
    <<AddressText("0"), <<"1">>>>,
    <<AddressText("1"), <<"1", ".", "5">>>>,
    <<AddressText("1")>> }

\* the records of a file for ReadClaimersFromCSV: the header, rows of an
\* account, a key and an amount, a row whose amount is no integer, a row of
\* two columns
ThreeColumnRecords ==
  { <<<<"a", "d", "d", "r", "e", "s", "s">>,
      <<"p", "r", "i", "v", "a", "t", "e", "_", "k", "e", "y">>,
      <<"a", "m", "o", "u", "n", "t">>>>,
    <<AddressText("1"), <<"k", "1">>, OneEther>>,
    <<AddressText("2"), <<"k", "2">>, <<"2">>>>,
    <<AddressText("1"), <<"k", "1">>, <<"1", ".", "5">>>>,
    <<AddressText("1"), <<"1">>>> }

\* no CSV reader has run
NoFiles == [root |-> <<>>, leaves |-> <<>>, proof |-> <<>>]

NoCsv ==
  /\ records = <<>>
  /\ addresses = <<>>
  /\ amounts = <<>>
  /\ files = NoFiles

\* the longest slice a caller goes on writing to after building the tree
MaxWriteLeaves == 2

(* -------------------------------- actions ------------------------------- *)

Init ==
  /\ cmd \in {"tree", "hashPair", "hashAddressAmount", "hexToHash"}
  /\ pc = "start"
  /\ leaves \in (IF cmd = "tree" THEN SeqsUpTo(LeafDigests, MaxLeaves) ELSE {<<>>})
  /\ a \in (IF cmd = "hashPair" THEN PairDigests ELSE {<<>>})
  /\ b \in (IF cmd = "hashPair" THEN PairDigests ELSE {<<>>})
  /\ mt = NilTree
  /\ err = ""
  /\ currentLevel = <<>>
  /\ currentTargetIndex = -1
  /\ target = <<>>
  /\ proof = <<>>
  /\ root = <<>>
  /\ verifyArgs = <<>>
  /\ isValid = FALSE
  /\ hash1 = <<>>
  /\ hash2 = <<>>
  /\ address \in (IF cmd = "hashAddressAmount" THEN Addresses ELSE {<<>>})
  /\ amount \in (IF cmd = "hashAddressAmount" THEN Amounts
                                            ELSE {BigInt(FALSE, <<>>)})
  /\ data = <<>>
  /\ hash = <<>>
  /\ hex \in (IF cmd = "hexToHash" THEN HexInputs ELSE {<<>>})
  /\ threads = [t \in Threads |-> IdleThread]
  /\ NoClaim
  /\ NoCsv

\* tree, err := NewMerkleTree(leaves)
CallNewMerkleTree ==
  /\ cmd = "tree" /\ pc = "start"
  /\ mt' = NewMerkleTree(leaves)[1]
  /\ err' = NewMerkleTree(leaves)[2]
  /\ pc' = IF NewMerkleTree(leaves)[2] = "" THEN "idle" ELSE "failed"
  /\ UNCHANGED <<extVars, cmd, leaves, currentLevel, currentTargetIndex, target, proof,
                 root, verifyArgs, isValid, a, b, hash1, hash2>>

\* tree.GenerateRoot(): entry, the single-leaf return, the copy of the leaves
GenerateRootEnter ==
  /\ pc = "idle"
  /\ IF Len(mt.leaves) = 1
     THEN /\ root' = mt.leaves[1]
          /\ UNCHANGED <<pc, currentLevel>>
     ELSE /\ currentLevel' = [i \in 1..Len(mt.leaves) |-> mt.leaves[i]]
          /\ root' = root
          /\ pc' = "root_loop"
  /\ UNCHANGED <<extVars, cmd, leaves, mt, err, currentTargetIndex, target, proof,
                 verifyArgs, isValid, a, b, hash1, hash2>>

\* GenerateRootLevel computing the next level in place, in the tree's own
\* slice (currentLevel := mt.leaves without the copy)
GenerateRootLevelInPlace ==
  /\ pc = "root_loop"
  /\ Len(currentLevel) > 1
  /\ currentLevel' = NextLevel(currentLevel)
  /\ mt' = [mt EXCEPT !.leaves =
              [i \in 1..Len(mt.leaves) |->
                 IF i <= Len(NextLevel(currentLevel))
                 THEN NextLevel(currentLevel)[i] ELSE mt.leaves[i]]]
  /\ UNCHANGED <<extVars, cmd, pc, leaves, err, currentTargetIndex, target,
                 proof, root, verifyArgs, isValid, a, b, hash1, hash2>>

\* one iteration of "for len(currentLevel) > 1" in GenerateRoot
GenerateRootLevel ==
  /\ pc = "root_loop"
  /\ Len(currentLevel) > 1
  /\ currentLevel' = NextLevel(currentLevel)
  /\ UNCHANGED <<extVars, cmd, pc, leaves, mt, err, currentTargetIndex, target, proof,
                 root, verifyArgs, isValid, a, b, hash1, hash2>>

\* return currentLevel[0]
GenerateRootReturn ==
  /\ pc = "root_loop"
  /\ ~(Len(currentLevel) > 1)
  /\ root' = currentLevel[1]
  /\ currentLevel' = <<>>
  /\ pc' = "idle"
  /\ UNCHANGED <<extVars, cmd, leaves, mt, err, currentTargetIndex, target, proof,
                 verifyArgs, isValid, a, b, hash1, hash2>>

\* tree.GenerateProof(t): the search, the not-found return, the set-up
GenerateProofEnter(t) ==
  /\ pc = "idle"
  /\ target' = t
  /\ proof' = <<>>
  /\ IF FindTargetIndex(mt.leaves, t) = -1
     THEN /\ err' = "target leaf not found"
          /\ UNCHANGED <<pc, currentLevel, currentTargetIndex>>
     ELSE /\ err' = ""
          /\ currentLevel' = [i \in 1..Len(mt.leaves) |-> mt.leaves[i]]
          /\ currentTargetIndex' = FindTargetIndex(mt.leaves, t)
          /\ pc' = "proof_loop"
  /\ UNCHANGED <<extVars, cmd, leaves, mt, root, verifyArgs, isValid, a, b, hash1,
                 hash2>>

\* one iteration of "for len(currentLevel) > 1" in GenerateProof
GenerateProofLevel ==
  /\ pc = "proof_loop"
  /\ Len(currentLevel) > 1
  /\ proof' = proof \o ProofAppend(currentLevel, currentTargetIndex)
  /\ currentLevel' = NextLevel(currentLevel)
  /\ currentTargetIndex' = NextTargetIndex(currentLevel, currentTargetIndex)
  /\ UNCHANGED <<extVars, cmd, pc, leaves, mt, err, target, root, verifyArgs, isValid,
                 a, b, hash1, hash2>>

\* return proof, nil
GenerateProofReturn ==
  /\ pc = "proof_loop"
  /\ ~(Len(currentLevel) > 1)
  /\ currentLevel' = <<>>
  /\ currentTargetIndex' = -1
  /\ pc' = "idle"
  /\ UNCHANGED <<extVars, cmd, leaves, mt, err, target, proof, root, verifyArgs,
                 isValid, a, b, hash1, hash2>>

\* isValid := VerifyProof(p, r, t)
CallVerifyProof(p, r, t) ==
  /\ pc = "idle"
  /\ root # <<>>
  /\ verifyArgs' = <<p, r, t>>
  /\ isValid' = VerifyProof(p, r, t)
  /\ pc' = "verified"
  /\ UNCHANGED <<extVars, cmd, leaves, mt, err, currentLevel, currentTargetIndex,
                 target, proof, root, a, b, hash1, hash2>>

\* the caller has read isValid and goes on
VerifyDone ==
  /\ pc = "verified"
  /\ verifyArgs' = <<>>
  /\ isValid' = FALSE
  /\ pc' = "idle"
  /\ UNCHANGED <<extVars, cmd, leaves, mt, err, currentLevel, currentTargetIndex,
                 target, proof, root, a, b, hash1, hash2>>

\* hash1 := hashPair(a, b); hash2 := hashPair(b, a)
TestHashPair ==
  /\ cmd = "hashPair" /\ pc = "start"
  /\ hash1' = hashPair(a, b)
  /\ hash2' = hashPair(b, a)
  /\ pc' = "done"
  /\ UNCHANGED <<extVars, cmd, leaves, mt, err, currentLevel, currentTargetIndex,
                 target, proof, root, verifyArgs, isValid, a, b>>

\* hash := HashAddressAmount(address, amount); FillBytes panics ("math/big:
\* buffer too small to fit value") when the magnitude needs more than
\* AmountBytes bytes, and nothing recovers from it
CallHashAddressAmount ==
  /\ cmd = "hashAddressAmount" /\ pc = "start"
  /\ IF FitsIn(amount, AmountBytes)
     THEN /\ data' = address \o FillBytes(amount, AmountBytes)
          /\ hash' = Keccak256Hash(data')
          /\ pc' = "done"
     ELSE /\ data' = data
          /\ hash' = hash
          /\ pc' = "panic"
  /\ UNCHANGED <<claimVars, csvVars, threads, address, amount, hex, cmd, leaves, mt, err, currentLevel,
                 currentTargetIndex, target, proof, root, verifyArgs, isValid,
                 a, b, hash1, hash2>>

\* hash, err := merkle.HexToHash(hex)
CallHexToHash ==
  /\ cmd = "hexToHash" /\ pc = "start"
  /\ hash' = HexToHash(hex)[1]
  /\ err' = HexToHash(hex)[2]
  /\ pc' = "done"
  /\ UNCHANGED <<claimVars, csvVars, threads, address, amount, data, hex, cmd, leaves, mt, currentLevel,
                 currentTargetIndex, target, proof, root, verifyArgs, isValid,
                 a, b, hash1, hash2>>

Next ==
  \/ CallNewMerkleTree
  \/ GenerateRootEnter
  \/ GenerateRootLevel
  \/ GenerateRootReturn
  \/ \E t \in LeafDigests : GenerateProofEnter(t)
  \/ GenerateProofLevel
  \/ GenerateProofReturn
  \/ \E c \in VerifyCalls : CallVerifyProof(c[1], c[2], c[3])
  \/ VerifyDone
  \/ TestHashPair
  \/ CallHashAddressAmount
  \/ CallHexToHash

Spec == Init /\ [][Next]_vars

(* ------------------- a caller that writes to its slice ------------------ *)

\* a caller builds a tree from a slice it keeps
InitWrites ==
  /\ cmd = "tree"
  /\ pc = "start"
  /\ leaves \in SeqsUpTo(RawDigests, MaxWriteLeaves)
  /\ a = <<>>
  /\ b = <<>>
  /\ mt = NilTree
  /\ err = ""
  /\ currentLevel = <<>>
  /\ currentTargetIndex = -1
  /\ target = <<>>
  /\ proof = <<>>
  /\ root = <<>>
  /\ verifyArgs = <<>>
  /\ isValid = FALSE
  /\ hash1 = <<>>
  /\ hash2 = <<>>
  /\ address = <<>>
  /\ amount = BigInt(FALSE, <<>>)
  /\ data = <<>>
  /\ hash = <<>>
  /\ hex = <<>>
  /\ threads = [t \in Threads |-> IdleThread]
  /\ NoClaim
  /\ NoCsv

\* leaves[k] = d, between two calls on the tree: the write goes to the array
\* behind the caller's slice, and shows in every slice that array backs
CallerWrite(k, d) ==
  /\ cmd = "tree" /\ pc = "idle"
  /\ k \in 1..Len(leaves)
  /\ leaves[k] # d
  /\ leaves' = [leaves EXCEPT ![k] = d]
  /\ mt' = IF mt.array = "leaves" THEN [mt EXCEPT !.leaves = leaves'] ELSE mt
  /\ UNCHANGED <<extVars, cmd, pc, err, currentLevel, currentTargetIndex, target,
                 proof, root, verifyArgs, isValid, a, b, hash1, hash2>>

NextWrites ==
  \/ CallNewMerkleTree
  \/ GenerateRootEnter
  \/ GenerateRootLevel
  \/ GenerateRootReturn
  \/ \E t \in RawDigests : GenerateProofEnter(t)
  \/ GenerateProofLevel
  \/ GenerateProofReturn
  \/ \E k \in 1..MaxWriteLeaves, d \in RawDigests : CallerWrite(k, d)

SpecWrites == InitWrites /\ [][NextWrites]_vars

(* ----------------------- callers sharing one tree ----------------------- *)

\* everything but the callers' own state
sharedVars ==
  <<cmd, pc, leaves, mt, err, currentLevel, currentTargetIndex, target, proof,
    root, verifyArgs, isValid, a, b, hash1, hash2, address, amount, data, hash,
    hex, claimVars, csvVars>>

\* one tree has been built from a non-empty leaf sequence; no caller has
\* started
InitConcurrent ==
  /\ cmd = "concurrent"
  /\ pc = "idle"
  /\ leaves \in SeqsUpTo(RawDigests, MaxSharedLeaves) \ {<<>>}
  /\ mt = NewMerkleTree(leaves)[1]
  /\ err = ""
  /\ currentLevel = <<>>
  /\ currentTargetIndex = -1
  /\ target = <<>>
  /\ proof = <<>>
  /\ root = <<>>
  /\ verifyArgs = <<>>
  /\ isValid = FALSE
  /\ a = <<>>
  /\ b = <<>>
  /\ hash1 = <<>>
  /\ hash2 = <<>>
  /\ address = <<>>
  /\ amount = BigInt(FALSE, <<>>)
  /\ data = <<>>
  /\ hash = <<>>
  /\ hex = <<>>
  /\ threads = [t \in Threads |-> IdleThread]
  /\ NoClaim
  /\ NoCsv

\* caller t enters mt.GenerateRoot(): the single-leaf return, or the copy
ThreadGenerateRootEnter(t) ==
  /\ threads[t].pc = "idle"
  /\ threads' = [threads EXCEPT ![t] =
       IF Len(mt.leaves) = 1
       THEN [@ EXCEPT !.op = "root", !.pc = "done", !.result = mt.leaves[1]]
       ELSE [@ EXCEPT !.op = "root", !.pc = "loop", !.currentLevel = mt.leaves]]
  /\ UNCHANGED sharedVars

\* a level step of GenerateRoot that stores the next level in the tree
ThreadGenerateRootLevelInPlace(t) ==
  /\ threads[t].op = "root" /\ threads[t].pc = "loop"
  /\ Len(threads[t].currentLevel) > 1
  /\ threads' = [threads EXCEPT ![t].currentLevel = NextLevel(@)]
  /\ mt' = [mt EXCEPT !.leaves = NextLevel(threads[t].currentLevel)]
  /\ UNCHANGED <<cmd, pc, leaves, err, currentLevel, currentTargetIndex, target,
                 proof, root, verifyArgs, isValid, a, b, hash1, hash2, address,
                 amount, data, hash, hex, claimVars,
                 csvVars>>

\* caller t: one iteration of GenerateRoot's loop, on its own copy
ThreadGenerateRootLevel(t) ==
  /\ threads[t].op = "root" /\ threads[t].pc = "loop"
  /\ Len(threads[t].currentLevel) > 1
  /\ threads' = [threads EXCEPT ![t].currentLevel = NextLevel(@)]
  /\ UNCHANGED sharedVars

\* caller t: return currentLevel[0]
ThreadGenerateRootReturn(t) ==
  /\ threads[t].op = "root" /\ threads[t].pc = "loop"
  /\ Len(threads[t].currentLevel) = 1
  /\ threads' = [threads EXCEPT ![t].pc = "done",
                                ![t].result = threads[t].currentLevel[1]]
  /\ UNCHANGED sharedVars

\* caller t enters mt.GenerateProof(tg): the search, then the error return
\* or the copy
ThreadGenerateProofEnter(t, tg) ==
  /\ threads[t].pc = "idle"
  /\ threads' = [threads EXCEPT ![t] =
       IF FindTargetIndex(mt.leaves, tg) = -1
       THEN [@ EXCEPT !.op = "proof", !.pc = "done", !.target = tg,
                      !.result = <<<<>>, "target leaf not found">>]
       ELSE [@ EXCEPT !.op = "proof", !.pc = "loop", !.target = tg,
                      !.currentTargetIndex = FindTargetIndex(mt.leaves, tg),
                      !.currentLevel = mt.leaves]]
  /\ UNCHANGED sharedVars

\* caller t: one iteration of GenerateProof's loop, on its own copy
ThreadGenerateProofLevel(t) ==
  /\ threads[t].op = "proof" /\ threads[t].pc = "loop"
  /\ Len(threads[t].currentLevel) > 1
  /\ threads' = [threads EXCEPT ![t] =
       [@ EXCEPT !.proof = @ \o ProofAppend(threads[t].currentLevel,
                                            threads[t].currentTargetIndex),
                 !.currentTargetIndex = NextTargetIndex(threads[t].currentLevel, @),
                 !.currentLevel = NextLevel(@)]]
  /\ UNCHANGED sharedVars

\* caller t: return proof, nil
ThreadGenerateProofReturn(t) ==
  /\ threads[t].op = "proof" /\ threads[t].pc = "loop"
  /\ Len(threads[t].currentLevel) = 1
  /\ threads' = [threads EXCEPT ![t].pc = "done",
                                ![t].result = <<threads[t].proof, "">>]
  /\ UNCHANGED sharedVars

\* caller t: VerifyProof(p, r, tg); it reads its arguments only
ThreadVerifyProof(t, p, r, tg) ==
  /\ threads[t].pc = "idle"
  /\ threads' = [threads EXCEPT ![t] =
       [@ EXCEPT !.op = "verify", !.pc = "done", !.args = <<p, r, tg>>,
                 !.result = VerifyProof(p, r, tg)]]
  /\ UNCHANGED sharedVars

\* caller t has its result and is free for the next call
ThreadDone(t) ==
  /\ threads[t].pc = "done"
  /\ threads' = [threads EXCEPT ![t] = IdleThread]
  /\ UNCHANGED sharedVars

NextConcurrent ==
  \E t \in Threads :
    \/ ThreadGenerateRootEnter(t)
    \/ ThreadGenerateRootLevel(t)
    \/ ThreadGenerateRootReturn(t)
    \/ \E tg \in RawDigests : ThreadGenerateProofEnter(t, tg)
    \/ ThreadGenerateProofLevel(t)
    \/ ThreadGenerateProofReturn(t)
    \/ \E c \in SharedVerifyCalls : ThreadVerifyProof(t, c[1], c[2], c[3])
    \/ ThreadDone(t)

SpecConcurrent == InitConcurrent /\ [][NextConcurrent]_vars

(* ------------------------------ claim tool ------------------------------ *)

\* what no step of the claim tool changes
claimFrame ==
  <<cmd, currentLevel, currentTargetIndex, verifyArgs, a, b, hash1, hash2,
    address, amount, data, hash, hex, threads, dryRun, targetAddr, claimers,
    csvVars>>

\* executeClaims is entered with the flags set and a CSV file on disk
InitClaim ==
  /\ cmd = "claim"
  /\ pc = "start"
  /\ dryRun \in BOOLEAN
  /\ targetAddr \in TargetAddrs
  /\ claimers \in SeqsUpTo(CsvRows, MaxRows)
  /\ targetClaimers = <<>>
  /\ claimIndex = 0
  /\ calls = {}
  /\ reports = {}
  /\ NoCsv
  /\ leaves = <<>>
  /\ mt = NilTree
  /\ err = ""
  /\ currentLevel = <<>>
  /\ currentTargetIndex = -1
  /\ target = <<>>
  /\ proof = <<>>
  /\ root = <<>>
  /\ verifyArgs = <<>>
  /\ isValid = FALSE
  /\ a = <<>>
  /\ b = <<>>
  /\ hash1 = <<>>
  /\ hash2 = <<>>
  /\ address = <<>>
  /\ amount = BigInt(FALSE, <<>>)
  /\ data = <<>>
  /\ hash = <<>>
  /\ hex = <<>>
  /\ threads = [t \in Threads |-> IdleThread]

\* ReadClaimersFromCSV, then the -address filter: the first row with the
\* address, or all rows
SelectClaimers ==
  /\ cmd = "claim" /\ pc = "start"
  /\ IF claimers = <<>>
     THEN /\ err' = "failed to read claimers from CSV"
          /\ pc' = "failed"
          /\ targetClaimers' = targetClaimers
     ELSE IF targetAddr = <<>>
     THEN /\ targetClaimers' = claimers
          /\ pc' = "selected"
          /\ err' = err
     ELSE IF FindTestCaseIndex(claimers, targetAddr) = -1
     THEN /\ err' = "address not found in CSV"
          /\ pc' = "failed"
          /\ targetClaimers' = targetClaimers
     ELSE /\ targetClaimers' = <<claimers[FindTestCaseIndex(claimers, targetAddr)]>>
          /\ pc' = "selected"
          /\ err' = err
  /\ UNCHANGED <<claimFrame, leaves, mt, root, proof, target, isValid,
                 claimIndex, calls, reports>>

\* ReadCSVTestCases and GenerateLocalMerkleData over all rows of the file:
\* a leaf per row (HashAddressAmount panics on an amount that does not fit),
\* the tree and its root
GenerateLocalMerkleData ==
  /\ cmd = "claim" /\ pc = "selected"
  /\ IF \E k \in 1..Len(claimers) : ~FitsIn(claimers[k].amount, AmountBytes)
     THEN /\ pc' = "panic"
          /\ UNCHANGED <<leaves, mt, root, claimIndex>>
     ELSE /\ leaves' = [k \in 1..Len(claimers) |->
                          HashAddressAmount(claimers[k].address, claimers[k].amount)]
          /\ mt' = NewMerkleTree(leaves')[1]
          /\ root' = GenerateRoot(leaves')
          /\ claimIndex' = 1
          /\ pc' = "loop"
  /\ UNCHANGED <<claimFrame, err, proof, target, isValid, targetClaimers,
                 calls, reports>>

\* an iteration that goes on to the claim whatever VerifyProof returned
ProcessClaimNoVerify ==
  /\ cmd = "claim" /\ pc = "loop" /\ claimIndex <= Len(targetClaimers)
  /\ LET claimer     == targetClaimers[claimIndex]
         targetIndex == FindTestCaseIndex(claimers, claimer.address)
         gen         == GenerateProof(mt.leaves, leaves[targetIndex])
         targetLeaf  == HashAddressAmount(claimer.address, claimer.amount)
     IN  IF targetIndex = -1 \/ gen[2] # ""
         THEN /\ claimIndex' = claimIndex + 1
              /\ pc' = pc
              /\ UNCHANGED <<proof, target, isValid>>
         ELSE /\ proof' = gen[1]
              /\ target' = targetLeaf
              /\ isValid' = VerifyProof(gen[1], root, targetLeaf)
              /\ pc' = "verified"
              /\ claimIndex' = claimIndex
  /\ UNCHANGED <<claimFrame, leaves, mt, root, err, targetClaimers, calls,
                 reports>>

\* one iteration up to the local verification: FindTestCaseIndex,
\* GenerateLocalProof, HashAddressAmount, VerifyProof; a row that is not
\* found, has no proof or does not verify is skipped
ProcessClaim ==
  /\ cmd = "claim" /\ pc = "loop" /\ claimIndex <= Len(targetClaimers)
  /\ LET claimer     == targetClaimers[claimIndex]
         targetIndex == FindTestCaseIndex(claimers, claimer.address)
         gen         == GenerateProof(mt.leaves, leaves[targetIndex])
         targetLeaf  == HashAddressAmount(claimer.address, claimer.amount)
     IN  IF targetIndex = -1
         THEN /\ claimIndex' = claimIndex + 1
              /\ pc' = pc
              /\ UNCHANGED <<proof, target, isValid>>
         ELSE IF gen[2] # ""
         THEN /\ claimIndex' = claimIndex + 1
              /\ pc' = pc
              /\ UNCHANGED <<proof, target, isValid>>
         ELSE /\ proof' = gen[1]
              /\ target' = targetLeaf
              /\ isValid' = VerifyProof(gen[1], root, targetLeaf)
              /\ IF isValid'
                 THEN pc' = "verified" /\ claimIndex' = claimIndex
                 ELSE pc' = pc /\ claimIndex' = claimIndex + 1
  /\ UNCHANGED <<claimFrame, leaves, mt, root, err, targetClaimers, calls,
                 reports>>

\* a dry-run check that reports and then goes on to the claim
DryRunCheckFallThrough ==
  /\ cmd = "claim" /\ pc = "verified"
  /\ reports' = IF dryRun THEN reports \cup {claimIndex} ELSE reports
  /\ pc' = "execute"
  /\ UNCHANGED <<claimFrame, leaves, mt, root, err, proof, target, isValid,
                 targetClaimers, claimIndex, calls>>

\* if *dryRun { report; continue }
DryRunCheck ==
  /\ cmd = "claim" /\ pc = "verified"
  /\ IF dryRun
     THEN /\ reports' = reports \cup {claimIndex}
          /\ claimIndex' = claimIndex + 1
          /\ pc' = "loop"
     ELSE /\ reports' = reports
          /\ claimIndex' = claimIndex
          /\ pc' = "execute"
  /\ UNCHANGED <<claimFrame, leaves, mt, root, err, proof, target, isValid,
                 targetClaimers, calls>>

\* a call of executeSingleClaim whose failure ends executeClaims
ClientCallAbort(name, at, next) ==
  /\ cmd = "claim" /\ pc = at
  /\ calls' = calls \cup {<<name, claimIndex>>}
  /\ \E ok \in BOOLEAN :
       IF ok
       THEN /\ pc' = next
            /\ claimIndex' = IF next = "loop" THEN claimIndex + 1 ELSE claimIndex
       ELSE pc' = "failed" /\ claimIndex' = claimIndex
  /\ UNCHANGED <<claimFrame, leaves, mt, root, err, proof, target, isValid,
                 targetClaimers, reports>>

\* one call of executeSingleClaim: it is made, and it succeeds (the claim
\* goes on at pc value next) or fails (the row is given up)
ClientCall(name, at, next) ==
  /\ cmd = "claim" /\ pc = at
  /\ calls' = calls \cup {<<name, claimIndex>>}
  /\ \E ok \in BOOLEAN :
       IF ok
       THEN /\ pc' = next
            /\ claimIndex' = IF next = "loop" THEN claimIndex + 1 ELSE claimIndex
       ELSE pc' = "loop" /\ claimIndex' = claimIndex + 1
  /\ UNCHANGED <<claimFrame, leaves, mt, root, err, proof, target, isValid,
                 targetClaimers, reports>>

\* data, err := contract.PrepareClaimTransaction(...)
PrepareClaimTransaction == ClientCall("PrepareClaimTransaction", "execute", "prepared")

\* account, err := contract.Client.GetAccountInfo(claimer.PrivateKey)
GetAccountInfo == ClientCall("GetAccountInfo", "prepared", "account")

\* tx, err := contract.Client.EstimateAndCreateTransaction(account, txParams)
EstimateAndCreateTransaction ==
  ClientCall("EstimateAndCreateTransaction", "account", "created")

\* signedTx, err := contract.Client.SignAndSendTransaction(tx, account.PrivateKey)
SignAndSendTransaction == ClientCall("SignAndSendTransaction", "created", "loop")

\* the loop has passed the last row: "Claims Complete", return nil
ClaimsComplete ==
  /\ cmd = "claim" /\ pc = "loop" /\ claimIndex > Len(targetClaimers)
  /\ pc' = "done"
  /\ UNCHANGED <<claimFrame, leaves, mt, root, err, proof, target, isValid,
                 targetClaimers, claimIndex, calls, reports>>

NextClaim ==
  \/ SelectClaimers
  \/ GenerateLocalMerkleData
  \/ ProcessClaim
  \/ DryRunCheck
  \/ PrepareClaimTransaction
  \/ GetAccountInfo
  \/ EstimateAndCreateTransaction
  \/ SignAndSendTransaction
  \/ ClaimsComplete

SpecClaim == InitClaim /\ [][NextClaim]_vars

(* ------------------------ runs of the CSV readers ----------------------- *)

\* everything the CSV readers leave alone
csvFrame ==
  <<cmd, records, currentLevel, currentTargetIndex, verifyArgs, a, b, hash1,
    hash2, address, amount, data, hash, hex, threads, dryRun, targetAddr,
    targetClaimers, claimIndex, calls, reports>>

\* csv_merkle_generator or ReadClaimersFromCSV is entered with a file on disk
InitCsv ==
  /\ cmd \in {"csv", "claimers"}
  /\ pc = "start"
  /\ records \in SeqsUpTo(IF cmd = "csv" THEN TwoColumnRecords
                                        ELSE ThreeColumnRecords, MaxCsvLines)
  /\ addresses = <<>>
  /\ amounts = <<>>
  /\ files = NoFiles
  /\ NoClaim
  /\ leaves = <<>>
  /\ mt = NilTree
  /\ err = ""
  /\ currentLevel = <<>>
  /\ currentTargetIndex = -1
  /\ target = <<>>
  /\ proof = <<>>
  /\ root = <<>>
  /\ verifyArgs = <<>>
  /\ isValid = FALSE
  /\ a = <<>>
  /\ b = <<>>
  /\ hash1 = <<>>
  /\ hash2 = <<>>
  /\ address = <<>>
  /\ amount = BigInt(FALSE, <<>>)
  /\ data = <<>>
  /\ hash = <<>>
  /\ hex = <<>>
  /\ threads = [t \in Threads |-> IdleThread]

\* addresses, amounts, err := readCSV(csvFile); log.Fatalf on an error
CsvReadCSV ==
  /\ cmd = "csv" /\ pc = "start"
  /\ addresses' = readCSV(records)[1]
  /\ amounts' = readCSV(records)[2]
  /\ err' = readCSV(records)[3]
  /\ pc' = IF err' # "" THEN "failed" ELSE "read"
  /\ UNCHANGED <<csvFrame, claimers, files, leaves, mt, root, proof, target,
                 isValid>>

\* the leaves, merkle.NewMerkleTree(leaves) and tree.GenerateRoot();
\* HashAddressAmount panics on an amount of more than AmountBytes bytes
CsvGenerateRoot ==
  /\ cmd = "csv" /\ pc = "read"
  /\ IF \E i \in 1..Len(amounts) : ~FitsIn(amounts[i], AmountBytes)
     THEN /\ pc' = "panic"
          /\ UNCHANGED <<leaves, mt, err, root>>
     ELSE /\ leaves' = [i \in 1..Len(addresses) |->
                          HashAddressAmount(addresses[i], amounts[i])]
          /\ mt' = NewMerkleTree(leaves')[1]
          /\ err' = NewMerkleTree(leaves')[2]
          /\ IF err' # ""
             THEN pc' = "failed" /\ UNCHANGED root
             ELSE pc' = "rooted" /\ root' = GenerateRoot(mt'.leaves)
  /\ UNCHANGED <<csvFrame, claimers, addresses, amounts, files, proof, target,
                 isValid>>

\* the proof of the first entry and its verification
CsvFirstProof ==
  /\ cmd = "csv" /\ pc = "rooted"
  /\ IF Len(leaves) > 0
     THEN /\ target' = leaves[1]
          /\ proof' = GenerateProof(mt.leaves, leaves[1])[1]
          /\ err' = GenerateProof(mt.leaves, leaves[1])[2]
          /\ IF err' # ""
             THEN pc' = "failed" /\ UNCHANGED isValid
             ELSE pc' = "proved" /\ isValid' = VerifyProof(proof', root, leaves[1])
     ELSE /\ pc' = "proved"
          /\ UNCHANGED <<target, proof, err, isValid>>
  /\ UNCHANGED <<csvFrame, claimers, addresses, amounts, files, leaves, mt,
                 root>>

\* saveResults(addresses, amounts, leaves, root, csvFile)
CsvSaveResults ==
  /\ cmd = "csv" /\ pc = "proved"
  /\ files' = saveResults(addresses, amounts, leaves, root)
  /\ pc' = "done"
  /\ UNCHANGED <<csvFrame, claimers, addresses, amounts, leaves, mt, err, root,
                 proof, target, isValid>>

\* claimers, err := ReadClaimersFromCSV(filePath)
CallReadClaimersFromCSV ==
  /\ cmd = "claimers" /\ pc = "start"
  /\ claimers' = ReadClaimersFromCSV(records)[1]
  /\ err' = ReadClaimersFromCSV(records)[2]
  /\ pc' = "done"
  /\ UNCHANGED <<csvFrame, addresses, amounts, files, leaves, mt, root, proof,
                 target, isValid>>

NextCsv ==
  \/ CsvReadCSV
  \/ CsvGenerateRoot
  \/ CsvFirstProof
  \/ CsvSaveResults
  \/ CallReadClaimersFromCSV

SpecCsv == InitCsv /\ [][NextCsv]_vars

(* -------------------------------- claims -------------------------------- *)

\* GenerateProof(target) has returned a proof and GenerateRoot() a root
HaveProofAndRoot ==
  /\ cmd = "tree"
  /\ pc \in {"idle", "verified"}
  /\ target # <<>>
  /\ err = ""
  /\ root # <<>>

\* the set of the tree's leaves
LeafSet == { mt.leaves[i] : i \in 1..Len(mt.leaves) }

\* p is q with exactly one element replaced by a different digest
OneReplaced(p, q) ==
  /\ Len(p) = Len(q)
  /\ Cardinality({ k \in 1..Len(q) : p[k] # q[k] }) = 1

\* C1: round trip -- for every leaf L of a non-empty tree,
\* VerifyProof(GenerateProof(L), GenerateRoot(), L) returns true.
C1_RoundTrip ==
  (HaveProofAndRoot /\ pc = "verified" /\ verifyArgs = <<proof, root, target>>)
    => isValid

\* the promoted third leaf of a 3-leaf tree has been proved and verified
C1_Witness ==
  /\ HaveProofAndRoot /\ pc = "verified"
  /\ verifyArgs = <<proof, root, target>>
  /\ Len(mt.leaves) = 3
  /\ target = mt.leaves[3]
  /\ target \notin {mt.leaves[1], mt.leaves[2]}
  /\ Len(proof) = 1
  /\ isValid

\* C2: no false positive from proof reuse -- the proof of leaf L, checked
\* against the root for any digest D other than L, is rejected.
C2_NoProofReuse ==
  (/\ HaveProofAndRoot /\ pc = "verified"
   /\ verifyArgs[1] = proof /\ verifyArgs[2] = root
   /\ verifyArgs[3] # target)
    => ~isValid

\* the proof of one leaf has been tried for another leaf of the same tree
C2_Witness ==
  /\ HaveProofAndRoot /\ pc = "verified"
  /\ verifyArgs[1] = proof /\ verifyArgs[2] = root
  /\ verifyArgs[3] # target
  /\ verifyArgs[3] \in LeafSet
  /\ Len(proof) = 2
  /\ ~isValid

\* C3: an empty proof is rejected against the root of every tree with two
\* or more leaves, whatever the target digest.
C3_EmptyProofRejected ==
  (/\ cmd = "tree" /\ pc = "verified"
   /\ Len(mt.leaves) >= 2
   /\ verifyArgs[1] = <<>> /\ verifyArgs[2] = root)
    => ~isValid

\* C4: hashPair(a, b) = hashPair(b, a), both being the Keccak hash of the
\* smaller digest (bytes.Compare order) followed by the larger.
C4_PairCommutes ==
  (cmd = "hashPair" /\ pc = "done")
    => /\ hash1 = hash2
       /\ \E lo \in {a, b} : \E hi \in {a, b} :
            /\ {lo, hi} = {a, b}
            /\ Compare(lo, hi) <= 0
            /\ hash1 = Keccak256Hash(lo \o hi)

\* hashPair was applied to a pair whose first digest is the larger one
C4_Witness ==
  /\ cmd = "hashPair" /\ pc = "done"
  /\ Compare(a, b) > 0
  /\ hash1 = hash2
  /\ hash1 = Keccak256Hash(b \o a)

\* C5: NewMerkleTree fails on the empty slice and returns no tree; on any
\* slice of length >= 1 it returns a tree holding the given leaves in order.
C5_NewMerkleTree ==
  (cmd = "tree" /\ pc # "start")
    => IF Len(leaves) = 0
       THEN pc = "failed" /\ mt.nil /\ err # ""
       ELSE pc # "failed" /\ ~mt.nil /\ mt.leaves = leaves

\* NewMerkleTree has refused the empty slice
C5_Witness ==
  /\ cmd = "tree" /\ pc = "failed"
  /\ leaves = <<>>
  /\ mt.nil
  /\ err = "array cannot be empty"

\* C6: GenerateProof fails with "target leaf not found", returning no proof,
\* exactly when the target equals none of the leaves.
C6_LeafNotFound ==
  (cmd = "tree" /\ target # <<>>)
    => IF target \notin LeafSet
       THEN err = "target leaf not found" /\ proof = <<>>
            /\ pc # "proof_loop"
       ELSE err = ""

\* GenerateProof has refused a digest absent from a tree of several leaves
C6_Witness ==
  /\ cmd = "tree" /\ pc = "idle"
  /\ Len(mt.leaves) >= 2
  /\ target # <<>> /\ target \notin LeafSet
  /\ err = "target leaf not found"
  /\ proof = <<>>

\* C7: for a single leaf, GenerateRoot returns the leaf itself,
\* GenerateProof(leaf) the empty proof, and VerifyProof(empty, leaf, leaf)
\* true.
C7_SingleLeaf ==
  (cmd = "tree" /\ pc # "start" /\ Len(mt.leaves) = 1)
    => /\ root # <<>> => root = mt.leaves[1]
       /\ target = mt.leaves[1] => (proof = <<>> /\ err = "")
       /\ (pc = "verified" /\ verifyArgs = <<<<>>, mt.leaves[1], mt.leaves[1]>>)
            => isValid

\* root, proof and verification of a single-leaf tree have all been computed
C7_Witness ==
  /\ cmd = "tree" /\ pc = "verified"
  /\ Len(mt.leaves) = 1
  /\ root = mt.leaves[1]
  /\ target = mt.leaves[1] /\ proof = <<>> /\ err = ""
  /\ verifyArgs = <<<<>>, mt.leaves[1], mt.leaves[1]>>
  /\ isValid

\* C8: odd-node promotion -- a loop iteration of GenerateRoot or
\* GenerateProof on a level of odd length m carries level[m-1] unchanged to
\* the last position of the next level, and every other node of the next
\* level is hashPair of its two children.
C8_OddPromotion ==
  [][(/\ pc \in {"root_loop", "proof_loop"}
      /\ Len(currentLevel) > 1
      /\ Len(currentLevel) % 2 = 1)
       => LET m == Len(currentLevel)
          IN  /\ Len(currentLevel') = (m + 1) \div 2
              /\ currentLevel'[(m + 1) \div 2] = currentLevel[m]
              /\ \A j \in 1..((m - 1) \div 2) :
                   currentLevel'[j] =
                     hashPair(currentLevel[2 * j - 1], currentLevel[2 * j])
     ]_vars

\* GenerateProof has built the second level of a 3-leaf tree, its third
\* leaf promoted
C8_Witness ==
  /\ pc = "proof_loop"
  /\ Len(mt.leaves) = 3
  /\ Len(currentLevel) = 2
  /\ currentLevel[2] = mt.leaves[3]
  /\ currentLevel[1] = hashPair(mt.leaves[1], mt.leaves[2])

\* C9: the root of [l0, l1, l2] is hashPair(hashPair(l0, l1), l2), and not
\* the root hashPair(hashPair(l0, l1), hashPair(l2, l2)) of a construction
\* that duplicates the last leaf.
C9_ThreeLeaves ==
  (cmd = "tree" /\ Len(mt.leaves) = 3 /\ root # <<>>)
    => LET l0 == mt.leaves[1]
           l1 == mt.leaves[2]
           l2 == mt.leaves[3]
       IN  /\ root = hashPair(hashPair(l0, l1), l2)
           /\ root # hashPair(hashPair(l0, l1), hashPair(l2, l2))

\* GenerateRoot has returned the root of a tree of three distinct leaves
C9_Witness ==
  /\ cmd = "tree" /\ pc = "idle"
  /\ Len(mt.leaves) = 3
  /\ Cardinality(LeafSet) = 3
  /\ root = hashPair(hashPair(mt.leaves[1], mt.leaves[2]), mt.leaves[3])

\* C10: tamper detection -- with two or more leaves, the proof of leaf L
\* with any one element replaced by a different digest is rejected for L.
C10_TamperDetected ==
  (/\ HaveProofAndRoot /\ pc = "verified"
   /\ Len(mt.leaves) >= 2
   /\ verifyArgs[2] = root /\ verifyArgs[3] = target
   /\ OneReplaced(verifyArgs[1], proof))
    => ~isValid

\* a proof of two elements with its second element replaced was rejected
C10_Witness ==
  /\ HaveProofAndRoot /\ pc = "verified"
  /\ Len(mt.leaves) >= 2
  /\ verifyArgs[2] = root /\ verifyArgs[3] = target
  /\ OneReplaced(verifyArgs[1], proof)
  /\ Len(proof) = 2
  /\ verifyArgs[1][2] # proof[2]
  /\ ~isValid

\* GenerateProof(target) has returned a proof
HaveProof ==
  /\ cmd = "tree"
  /\ pc \in {"idle", "root_loop", "verified"}
  /\ target # <<>>
  /\ err = ""

\* C11: GenerateRoot and GenerateProof, successful or failing, leave the
\* tree's stored leaves as they were constructed.
C11_LeavesUnchanged ==
  [][(cmd = "tree" /\ pc # "start") => mt' = mt]_vars

\* after a GenerateRoot and a failing GenerateProof the leaves are the
\* constructed ones
C11_Witness ==
  /\ cmd = "tree" /\ pc = "idle"
  /\ Len(leaves) = 3
  /\ root # <<>>
  /\ err = "target leaf not found"
  /\ mt.leaves = leaves

\* C12: determinism -- every root returned is the one function
\* GenerateRoot of the constructed sequence (so repeated calls, and trees
\* built from equal sequences, agree; a repeated call returns the digest
\* already held), and every proof returned is the one function
\* GenerateProof of the sequence and the target.
C12_Deterministic ==
  /\ [](cmd = "tree" =>
          /\ root # <<>> => root = GenerateRoot(leaves)
          /\ (target # <<>> /\ pc \in {"idle", "root_loop", "verified"})
               => <<proof, err>> = GenerateProof(leaves, target))
  /\ [][(root # <<>> /\ root' # <<>>) => root' = root]_vars

\* a second GenerateRoot call is running on a tree whose root and a proof
\* were already returned
C12_Witness ==
  /\ cmd = "tree" /\ pc = "root_loop"
  /\ Len(leaves) = 4
  /\ root # <<>>
  /\ Len(currentLevel) = 1
  /\ target # <<>> /\ Len(proof) = 2

RECURSIVE Depth(_)
\* number of levels below the root of a tree of n leaves
Depth(n) == IF n <= 1 THEN 0 ELSE 1 + Depth((n + 1) \div 2)

RECURSIVE Promotions(_, _)
\* number of levels at which the node above leaf i (0-based) of a tree of n
\* leaves is the odd one out
Promotions(n, i) ==
  IF n <= 1 THEN 0
  ELSE (IF n % 2 = 1 /\ i = n - 1 THEN 1 ELSE 0)
         + Promotions((n + 1) \div 2, i \div 2)

\* 0-based position of the first leaf equal to t
FirstPosition(t) ==
  (CHOOSE i \in 1..Len(mt.leaves) :
     mt.leaves[i] = t /\ \A k \in 1..(i - 1) : mt.leaves[k] # t) - 1

\* C17 as stated: the proof holds one digest per level below the root.
C17_OnePerLevel ==
  (HaveProof /\ pc = "idle") => Len(proof) = Depth(Len(mt.leaves))

\* C17 amended: the proof holds one digest per level below the root at
\* which the node on the leaf's path has a partner -- the number of levels
\* minus the number of levels at which that node is the promoted odd one
\* out.
C17_OnePerPairedLevel ==
  (HaveProof /\ pc = "idle")
    => /\ Len(proof) = Depth(Len(mt.leaves))
                         - Promotions(Len(mt.leaves), FirstPosition(target))
       /\ Len(proof) <= Depth(Len(mt.leaves))

\* the proof of the promoted third leaf of a 3-leaf tree: one digest, two
\* levels
C17_Witness ==
  /\ HaveProof /\ pc = "idle"
  /\ Len(mt.leaves) = 3
  /\ FirstPosition(target) = 2
  /\ Len(proof) = 1
  /\ Depth(Len(mt.leaves)) = 2

RECURSIVE SiblingPath(_, _)
\* the siblings met on the way from position i (0-based) of level to the root
SiblingPath(level, i) ==
  IF Len(level) <= 1 THEN <<>>
  ELSE LET sib == IF i % 2 = 0 THEN i + 1 ELSE i - 1
       IN  (IF sib < Len(level) THEN <<level[sib + 1]>> ELSE <<>>)
             \o SiblingPath(NextLevel(level), i \div 2)

\* C18: when the target occurs at several positions, GenerateProof returns
\* the sibling path of its lowest position, and that proof verifies against
\* the root.
C18_FirstMatch ==
  (/\ HaveProof /\ pc = "idle"
   /\ Cardinality({ i \in 1..Len(mt.leaves) : mt.leaves[i] = target }) >= 2)
    => /\ proof = SiblingPath(mt.leaves, FirstPosition(target))
       /\ VerifyProof(proof, GenerateRoot(mt.leaves), target)

\* a proof was returned for a digest held by the first and the last of
\* three leaves, whose sibling paths differ
C18_Witness ==
  /\ HaveProof /\ pc = "idle"
  /\ Len(mt.leaves) = 3
  /\ mt.leaves[1] = target /\ mt.leaves[3] = target /\ mt.leaves[2] # target
  /\ proof = SiblingPath(mt.leaves, 0)
  /\ proof # SiblingPath(mt.leaves, 2)

\* HashAddressAmount has returned or died
HashAddressAmountCalled == cmd = "hashAddressAmount" /\ pc # "start"

\* C13: HashAddressAmount with an amount above 2^256 - 1 returns an
\* AmountOverflow error to its caller: it produces no digest and does not
\* terminate the process.
C13_OverflowReturnsError ==
  (HashAddressAmountCalled /\ ~FitsIn(amount, AmountBytes))
    => (pc = "done" /\ err = "AmountOverflow" /\ hash = <<>>)

\* C14: for every 20-byte account and every amount in 0..2^256-1 the call
\* returns, and the preimage it hashes has exactly 52 bytes, the 20 account
\* bytes followed by the amount as 32 bytes, most significant first and
\* zero-padded on the left; the account and the amount are not modified.
C14_Preimage ==
  /\ []((HashAddressAmountCalled /\ Len(address) = 20 /\ ~amount.neg
           /\ FitsIn(amount, 32))
          => /\ pc = "done"
             /\ Len(data) = 52
             /\ SubSeq(data, 1, 20) = address
             /\ \A k \in 0..31 : data[52 - k] = Digit(amount, k)
             /\ hash = Keccak256Hash(data))
  /\ [][cmd = "hashAddressAmount" => (address' = address /\ amount' = amount)]_vars

\* the amount 2^248 + 2^8 - 1 (top byte 1, low bytes 0 then 255) was hashed
\* with the account whose bytes all differ
C14_Witness ==
  /\ HashAddressAmountCalled /\ pc = "done"
  /\ ~amount.neg /\ Len(amount.abs) = 32
  /\ amount.abs[32] = 1 /\ amount.abs[1] = 255
  /\ address[1] = 1 /\ address[20] = 20
  /\ data[21] = 1 /\ data[52] = 255

\* HexToHash has returned
HexToHashCalled == cmd = "hexToHash" /\ pc = "done"

\* "0x" followed by exactly 64 hexadecimal digits
WellFormedHash(str) ==
  /\ Len(str) = 66
  /\ str[1] = "0" /\ str[2] = "x"
  /\ \A i \in 3..66 : str[i] \in HexChars

\* C19: HexToHash returns an invalid-encoding error for every text that is
\* not "0x" followed by exactly 64 hexadecimal digits.
C19_MalformedRejected ==
  (HexToHashCalled /\ ~WellFormedHash(hex)) => err # ""

\* what the call caller t has finished gives when it runs alone on the
\* leaf sequence the tree was built from
AloneResult(t) ==
  CASE threads[t].op = "root"   -> GenerateRoot(leaves)
    [] threads[t].op = "proof"  -> GenerateProof(leaves, threads[t].target)
    [] threads[t].op = "verify" ->
         VerifyProof(threads[t].args[1], threads[t].args[2], threads[t].args[3])

\* C16: in every interleaving of GenerateRoot, GenerateProof and VerifyProof
\* calls by callers sharing one tree, each finished call has the result it
\* gives when run alone, and the shared leaves are never written.
C16_ConcurrentSafe ==
  cmd = "concurrent" =>
    /\ mt.leaves = leaves
    /\ \A t \in Threads :
         threads[t].pc = "done" => threads[t].result = AloneResult(t)

\* t1 has finished a two-element proof while t2 is part-way through
\* GenerateRoot
C16_Witness ==
  /\ cmd = "concurrent"
  /\ threads["t1"].op = "proof" /\ threads["t1"].pc = "done"
  /\ Len(threads["t1"].result[1]) = 2
  /\ threads["t2"].op = "root" /\ threads["t2"].pc = "loop"
  /\ Len(threads["t2"].currentLevel) = 2

\* the local verification of row k of targetClaimers succeeds: the proof of
\* the leaf found for its account, folded from its own leaf, gives the root
ClaimVerifies(k) ==
  LET claimer == targetClaimers[k]
      idx     == FindTestCaseIndex(claimers, claimer.address)
  IN  /\ idx # -1
      /\ LET generated == GenerateProof(leaves, leaves[idx])
         IN  /\ generated[2] = ""
             /\ VerifyProof(generated[1], GenerateRoot(leaves),
                            HashAddressAmount(claimer.address, claimer.amount))

\* the rows whose iteration is over
Processed ==
  { k \in 1..Len(targetClaimers) : k < claimIndex \/ pc = "done" }

InClaimLoop == cmd = "claim" /\ pc \notin {"start", "selected", "failed", "panic"}

\* C21: once the loop of executeClaims is entered, the rows of targetClaimers
\* are taken one after the other in file order, each exactly once: every
\* step either goes on within the iteration of the current row or ends it
\* and moves to the next row, whatever failed for the row; no step leaves
\* the loop but the return of nil after the last row, and before that
\* return a step is always possible.
C21_ClaimsIndependent ==
  /\ [](InClaimLoop =>
          /\ err = ""
          /\ claimIndex \in 1..(Len(targetClaimers) + 1)
          /\ pc \in {"loop", "done"} \/ claimIndex <= Len(targetClaimers)
          /\ pc = "done" => claimIndex = Len(targetClaimers) + 1
          /\ \/ pc = "done"
             \/ pc = "loop" /\ claimIndex <= Len(targetClaimers)
             \/ ENABLED (DryRunCheck \/ PrepareClaimTransaction \/ GetAccountInfo
                           \/ EstimateAndCreateTransaction
                           \/ SignAndSendTransaction \/ ClaimsComplete))
  /\ [][InClaimLoop
          => \/ (claimIndex' = claimIndex /\ pc = "loop" /\ pc' = "verified")
             \/ (claimIndex' = claimIndex /\ pc # "loop"
                   /\ pc' \in {"execute", "prepared", "account", "created"})
             \/ (claimIndex' = claimIndex + 1 /\ pc' = "loop")
             \/ (claimIndex' = claimIndex /\ pc = "loop" /\ pc' = "done"
                   /\ claimIndex = Len(targetClaimers) + 1)]_vars

\* PrepareClaimTransaction failed for the first of two rows, the second row
\* was sent after it, and executeClaims has returned
C21_Witness ==
  /\ cmd = "claim" /\ pc = "done" /\ ~dryRun /\ err = ""
  /\ Len(targetClaimers) = 2
  /\ calls = { <<"PrepareClaimTransaction", 1>>,
               <<"PrepareClaimTransaction", 2>>, <<"GetAccountInfo", 2>>,
               <<"EstimateAndCreateTransaction", 2>>,
               <<"SignAndSendTransaction", 2>> }

\* the steps of executeSingleClaim
Executing == pc \in {"execute", "prepared", "account", "created"}

\* C22: a contract or client call is made for a row only after VerifyProof
\* returned true for the row's own leaf in that iteration (calls are made in
\* the steps of executeSingleClaim only, for the current row, and these are
\* reached with a verified proof); a row whose proof fails the local
\* verification has nothing prepared or sent when executeClaims returns.
C22_VerifiedBeforeSend ==
  /\ []((cmd = "claim" /\ Executing) =>
          /\ isValid
          /\ target = HashAddressAmount(targetClaimers[claimIndex].address,
                                        targetClaimers[claimIndex].amount)
          /\ VerifyProof(proof, root, target))
  /\ [][cmd = "claim" =>
          /\ calls \subseteq calls'
          /\ \A c \in calls' \ calls : Executing /\ c[2] = claimIndex]_vars
  /\ []((cmd = "claim" /\ pc = "done") =>
          \A k \in { c[2] : c \in calls } : ClaimVerifies(k))

\* the second row has the account of the first and another amount: it failed
\* the local verification, the first row was sent
C22_Witness ==
  /\ cmd = "claim" /\ pc = "done"
  /\ Len(targetClaimers) = 2
  /\ ~ClaimVerifies(2)
  /\ calls = { <<"PrepareClaimTransaction", 1>>, <<"GetAccountInfo", 1>>,
               <<"EstimateAndCreateTransaction", 1>>,
               <<"SignAndSendTransaction", 1>> }

\* C30: in executeClaims the proof generated for every row verifies against
\* the root with the row's own leaf, so no row is skipped for an invalid
\* proof, rows with the same address and different amounts included.
C30_NoRowSkipped ==
  (cmd = "claim" /\ (pc \in {"loop", "verified", "done"} \/ Executing))
    => \A k \in Processed : ClaimVerifies(k)

\* the 0-based index of the pairing partner of index i
Partner(i) == IF i % 2 = 0 THEN i + 1 ELSE i - 1

\* C26: in every iteration of GenerateProof's loop the tracked index becomes
\* floor(currentIndex / 2) and the next level holds there the node computed
\* from the tracked node (its hash with the partner, or the node itself when
\* it is the promoted odd one out); a digest is appended to the proof iff the
\* tracked node has a partner, and it is the partner (index currentIndex xor 1).
C26_IndexTracking ==
  [][(cmd = "tree" /\ pc = "proof_loop" /\ pc' = "proof_loop"
        /\ Len(currentLevel') < Len(currentLevel))
       => LET cur     == currentTargetIndex
              paired  == Partner(cur) < Len(currentLevel)
              sibling == currentLevel[Partner(cur) + 1]
          IN  /\ currentTargetIndex' = cur \div 2
              /\ currentLevel'[(cur \div 2) + 1] =
                   (IF paired THEN hashPair(currentLevel[cur + 1], sibling)
                    ELSE currentLevel[cur + 1])
              /\ proof' = (IF paired THEN Append(proof, sibling) ELSE proof)]_vars

\* the third of three leaves was promoted at the first level: nothing was
\* appended and it is tracked at index 1 of the two-node level
C26_Witness ==
  /\ cmd = "tree" /\ pc = "proof_loop"
  /\ Len(leaves) = 3 /\ target = leaves[3]
  /\ leaves[1] # target /\ leaves[2] # target
  /\ Len(currentLevel) = 2 /\ currentTargetIndex = 1
  /\ currentLevel[2] = target
  /\ proof = <<>>

\* C27: for a tree of two or more leaves, a target that VerifyProof accepts
\* against the tree's root, with whatever proof, is one of the tree's leaves
\* (no inner node, and not the root).
C27_OnlyLeavesVerify ==
  (cmd = "tree" /\ pc = "verified" /\ Len(leaves) >= 2
     /\ verifyArgs[2] = GenerateRoot(leaves) /\ isValid)
    => \E k \in 1..Len(leaves) : leaves[k] = verifyArgs[3]

\* C28: the preimage HashAddressAmount has hashed for an amount is the
\* preimage of no other amount it accepts (negative amounts included) with
\* the same address.
C28_EncodingInjective ==
  (HashAddressAmountCalled /\ pc = "done")
    => \A y \in Amounts :
         (y # amount /\ FitsIn(y, AmountBytes))
           => address \o FillBytes(y, AmountBytes) # data

\* C29: NewMerkleTree does not modify the slice it is given, and a later
\* write of the caller to that slice changes neither what GenerateRoot nor
\* what GenerateProof gives on the tree: the calls return the results of the
\* leaves the tree was built from, before and after the write.
C29_PrivateCopy ==
  /\ []((cmd = "tree" /\ pc = "idle")
          => /\ root # <<>> => root = GenerateRoot(mt.leaves)
             /\ target # <<>> => <<proof, err>> = GenerateProof(mt.leaves, target))
  /\ [][cmd = "tree"
          => /\ pc = "start" => leaves' = leaves
             /\ leaves' # leaves =>
                  /\ GenerateRoot(mt'.leaves) = GenerateRoot(mt.leaves)
                  /\ \A t \in RawDigests :
                       GenerateProof(mt'.leaves, t) = GenerateProof(mt.leaves, t)
             /\ (root # <<>> /\ root' # <<>>) => root' = root]_vars

\* the caller has overwritten a leaf of its slice; the tree still gives the
\* root and a proof of the leaves it was built from
C29_Witness ==
  /\ cmd = "tree" /\ pc = "idle" /\ err = ""
  /\ Len(leaves) = 2
  /\ leaves # mt.leaves
  /\ root = GenerateRoot(mt.leaves) /\ root # GenerateRoot(leaves)
  /\ target = mt.leaves[2] /\ \A k \in 1..2 : leaves[k] # target
  /\ Len(proof) = 1

\* the rows of the file that hold an account and an integer amount
ValidRows == SelectSeq(records, readCSVKeeps)

\* every record of the file has two columns
TwoColumnFormat == \A i \in 1..Len(records) : Len(records[i]) = 2

\* C23: after a run of csv_merkle_generator on a file with k valid entries,
\* the .proof file holds k proofs, one per entry.
C23_ProofPerEntry ==
  (cmd = "csv" /\ pc = "done") =>
    /\ Len(files.proof) = Len(addresses)
    /\ \A i \in 1..Len(addresses) :
         /\ files.proof[i].leaf = leaves[i]
         /\ VerifyProof(files.proof[i].proof, root, leaves[i])

\* C24: for a file in the two-column format, each row with a valid account
\* and an integer amount becomes one leaf HashAddressAmount(address, amount),
\* in file order, and no other row does.
C24_EveryValidRowIsLeaf ==
  (cmd = "csv" /\ pc \in {"rooted", "proved", "done"} /\ TwoColumnFormat) =>
    /\ Len(leaves) = Len(ValidRows)
    /\ \A i \in 1..Len(ValidRows) :
         leaves[i] = HashAddressAmount(HexToAddress(ValidRows[i][1]),
                                       SetString(ValidRows[i][2])[1])

\* the file is in the documented format: the header, then rows of an
\* account, a key and an integer amount
DocumentedClaimersFile ==
  /\ Len(records) >= 1
  /\ records[1] = <<<<"a", "d", "d", "r", "e", "s", "s">>,
                    <<"p", "r", "i", "v", "a", "t", "e", "_", "k", "e", "y">>,
                    <<"a", "m", "o", "u", "n", "t">>>>
  /\ \A i \in 2..Len(records) : ~BadClaimerRecord(records[i])

\* C25: ReadClaimersFromCSV reads a file in the documented format, the
\* header first, without error, and returns one ClaimerInfo per data row in
\* file order.
C25_HeaderAccepted ==
  (cmd = "claimers" /\ pc = "done" /\ DocumentedClaimersFile) =>
    /\ err = ""
    /\ Len(claimers) = Len(records) - 1
    /\ \A i \in 1..Len(claimers) :
         /\ claimers[i].address = HexToAddress(records[i + 1][1])
         /\ claimers[i].privateKey = records[i + 1][2]
         /\ claimers[i].amount = SetString(records[i + 1][3])[1]

=========================================================================
